---- MODULE Spec2Model ----
(***************************************************************************)
(* Model of the set-associative cache simulator in src/sim.py: Memory,     *)
(* CacheBlock, CacheSet and Cache, driven as main() drives them: one       *)
(* construction (a Memory of 2^address_bit words, then the Cache), then    *)
(* any sequence of Cache.read / Cache.write calls on non-negative          *)
(* addresses, some of them outside the address space.                      *)
(*                                                                         *)
(* A Python list is a sequence (index i of the list is element i+1), an    *)
(* OrderedDict is a sequence of blocks in insertion order, None is the     *)
(* value NoneVal.                                                          *)
(***************************************************************************)
EXTENDS Integers, Sequences, FiniteSets, TLC

\* ---- bounds of the model ----
MaxCacheSize == 2      \* cache_size is drawn from 0..MaxCacheSize
MaxBlockSize == 2      \* block_size is drawn from 0..MaxBlockSize
MaxAssoc == 2          \* associativity is drawn from 0..MaxAssoc
MaxVal == 1            \* written words are drawn from 1..MaxVal
MaxOps == 4            \* number of read/write calls made on the cache

AddressBits == {2}
Policies == {"FIFO", "LRU", "RANDOM"}
PolicyInputs == Policies \cup {"LFU"}
NoneVal == -1
Values == 1..MaxVal

RECURSIVE Pow2(_)
Pow2(n) == IF n = 0 THEN 1 ELSE 2 * Pow2(n - 1)

\* math.log2(x) % 1 == 0 for a positive integer x
RECURSIVE IsPow2(_)
IsPow2(x) == IF x = 1 THEN TRUE
             ELSE IF x <= 0 \/ x % 2 # 0 THEN FALSE
             ELSE IsPow2(x \div 2)

VARIABLES pc, cache_size, block_size, associativity, policy, address_bit,
          set_count, access_count, hit_count, read_count, write_count,
          read_hit_count, write_hit_count, time, sets, memory, last

config == <<cache_size, block_size, associativity, policy, address_bit, set_count>>
stats == <<access_count, hit_count, read_count, write_count, read_hit_count, write_hit_count>>
vars == <<pc, cache_size, block_size, associativity, policy, address_bit,
          set_count, access_count, hit_count, read_count, write_count,
          read_hit_count, write_hit_count, time, sets, memory, last>>

\* ---- Memory ----
NewMemory(size) == [size |-> size,
                    data |-> [a \in 0..(size - 1) |-> NoneVal],
                    access_count |-> 0]

MemoryInRange(m, address) == ~(address < 0 \/ address >= m.size)

\* a read that hands out the cell as stored, None included
MemoryValue_raw(m, address) == m.data[address]

\* the value Memory.read returns for an address in range
MemoryValue(m, address) == IF m.data[address] = NoneVal THEN 0 ELSE m.data[address]

\* the Memory after Memory.write on an address in range
MemoryWrite(m, address, data) ==
    [m EXCEPT !.access_count = @ + 1, !.data[address] = data]

\* ---- CacheSet ----
\* position of the block stored under key tag, 0 when there is none
find_block(blocks, tag) ==
    IF \E p \in 1..Len(blocks) : blocks[p].tag = tag
    THEN CHOOSE p \in 1..Len(blocks) : blocks[p].tag = tag
    ELSE 0

\* the FIFO loop of evict_block from position p on: the position kept in
\* evict_tag once the loop ends (temp = -1 is the loop's "nothing yet")
RECURSIVE fifo_scan(_, _, _, _)
fifo_scan(blocks, p, temp, evict) ==
    IF p > Len(blocks) THEN evict
    ELSE IF temp = -1 \/ blocks[p].load_time < temp
         THEN fifo_scan(blocks, p + 1, blocks[p].load_time, p)
         ELSE fifo_scan(blocks, p + 1, temp, evict)

\* a FIFO that keeps the oldest block and evicts the newest
fifo_victim_newest(blocks) ==
    CHOOSE p \in 1..Len(blocks) :
        \A q \in 1..Len(blocks) : blocks[q].load_time <= blocks[p].load_time

fifo_victim(blocks) == fifo_scan(blocks, 1, -1, 0)

RECURSIVE lru_scan(_, _, _, _)
lru_scan(blocks, p, temp, evict) ==
    IF p > Len(blocks) THEN evict
    ELSE IF temp = -1 \/ blocks[p].last_time < temp
         THEN lru_scan(blocks, p + 1, blocks[p].last_time, p)
         ELSE lru_scan(blocks, p + 1, temp, evict)

\* an LRU that looks at the admission time instead of the last access
lru_victim_by_load(blocks) == fifo_scan(blocks, 1, -1, 0)

lru_victim(blocks) == lru_scan(blocks, 1, -1, 0)

\* the position evict_block selects; r is the draw of random.choice
select_victim(blocks, pol, r) ==
    IF pol = "RANDOM" THEN r
    ELSE IF pol = "FIFO" THEN fifo_victim(blocks)
    ELSE IF pol = "LRU" THEN lru_victim(blocks)
    ELSE 0

\* the write-back loop of evict_block from offset i on
RECURSIVE write_back(_, _, _)
write_back(m, block, i) ==
    IF i >= block.block_size THEN m
    ELSE LET addr == block.base_address + i IN
         IF addr < m.size
         THEN write_back(MemoryWrite(m, addr, block.data[i + 1]), block, i + 1)
         ELSE write_back(m, block, i + 1)

\* an eviction that drops the victim without writing it back
flush_never(m, block) == m

\* a write-through of every victim, dirty or not
flush_always(m, block) == write_back(m, block, 0)

\* the Memory after the victim's write-back
flush(m, block) ==
    IF block.dirty /\ Len(block.data) > 0 THEN write_back(m, block, 0) ELSE m

\* a delete that always drops the first entry of the dictionary
RemoveAt_first(blocks, p) == [q \in 1..(Len(blocks) - 1) |-> blocks[q + 1]]

RemoveAt(blocks, p) == [q \in 1..(Len(blocks) - 1) |-> IF q < p THEN blocks[q] ELSE blocks[q + 1]]

\* evict_block: the blocks left, the Memory and the victim (as a 0/1 sequence)
evict_block(blocks, m, pol, r) ==
    IF Len(blocks) = 0 THEN [blocks |-> blocks, memory |-> m, victim |-> <<>>]
    ELSE LET p == select_victim(blocks, pol, r) IN
         IF p = 0 THEN [blocks |-> blocks, memory |-> m, victim |-> <<>>]
         ELSE [blocks |-> RemoveAt(blocks, p),
               memory |-> flush(m, blocks[p]),
               victim |-> <<blocks[p]>>]

\* self.blocks[block.tag] = block on an OrderedDict
dict_set(blocks, block) ==
    LET p == find_block(blocks, block.tag) IN
    IF p = 0 THEN Append(blocks, block) ELSE [blocks EXCEPT ![p] = block]

\* a set that evicts before every insertion
add_block_always_evict(blocks, block, m, assoc, pol, r) ==
    LET e == evict_block(blocks, m, pol, IF r > Len(blocks) THEN 1 ELSE r) IN
    [blocks |-> dict_set(e.blocks, block), memory |-> e.memory, victim |-> e.victim]

\* a set that evicts only once it holds more than associativity blocks
add_block_late(blocks, block, m, assoc, pol, r) ==
    IF Len(blocks) > assoc
    THEN LET e == evict_block(blocks, m, pol, r) IN
         [blocks |-> dict_set(e.blocks, block), memory |-> e.memory, victim |-> e.victim]
    ELSE [blocks |-> dict_set(blocks, block), memory |-> m, victim |-> <<>>]

add_block(blocks, block, m, assoc, pol, r) ==
    IF Len(blocks) >= assoc
    THEN LET e == evict_block(blocks, m, pol, r) IN
         [blocks |-> dict_set(e.blocks, block), memory |-> e.memory, victim |-> e.victim]
    ELSE [blocks |-> dict_set(blocks, block), memory |-> m, victim |-> <<>>]

\* ---- Cache ----
\* what the last call did: its arguments, how it ended, the block add_block
\* evicted (a sequence of 0 or 1 blocks) and the value it returned
NoCall == [op |-> "none", address |-> -1, data |-> NoneVal, outcome |-> "none",
           tag |-> -1, index |-> -1, offset |-> -1, victim |-> <<>>, ret |-> NoneVal]

\* the error Cache.__init__ raises for these arguments, "ok" when it raises none
config_error(cs, bs, as, pol) ==
    IF cs <= 0 \/ bs <= 0 \/ as <= 0 THEN "Parameter 'Size' must be greater than 0"
    ELSE IF ~IsPow2(cs) \/ ~IsPow2(bs) \/ ~IsPow2(as) THEN "Parameter 'Size' must be a power of 2"
    ELSE IF pol \notin {"FIFO", "LRU", "RANDOM"} THEN "Policy must be one of FIFO , LRU, RANDOM"
    ELSE "ok"

\* int(cache_size / (block_size * associativity))
compute_set_count(cs, bs, as) == cs \div (bs * as)

Init ==
    /\ pc = "start"
    /\ cache_size = 0 /\ block_size = 0 /\ associativity = 0
    /\ policy = "none" /\ address_bit = 0 /\ set_count = 0
    /\ access_count = 0 /\ hit_count = 0 /\ read_count = 0 /\ write_count = 0
    /\ read_hit_count = 0 /\ write_hit_count = 0
    /\ time = 0
    /\ sets = <<>>
    /\ memory = NewMemory(0)
    /\ last = NoCall

\* main(): memory = Memory(2**address_bit), then Cache(...)
Construct(cs, bs, as, pol, ab) ==
    /\ pc = "start"
    /\ memory' = NewMemory(Pow2(ab))
    /\ IF config_error(cs, bs, as, pol) # "ok"
       THEN /\ pc' = "InvalidConfig"
            /\ last' = [NoCall EXCEPT !.op = "construct", !.outcome = config_error(cs, bs, as, pol)]
            /\ UNCHANGED <<config, stats, time, sets>>
       ELSE /\ pc' = "ready"
            /\ cache_size' = cs /\ associativity' = as /\ policy' = pol
            /\ address_bit' = ab /\ block_size' = bs
            /\ set_count' = compute_set_count(cs, bs, as)
            /\ access_count' = 0 /\ hit_count' = 0 /\ read_count' = 0
            /\ write_count' = 0 /\ read_hit_count' = 0 /\ write_hit_count' = 0
            /\ time' = 0
            /\ sets' = [i \in 0..(compute_set_count(cs, bs, as) - 1) |-> <<>>]
            /\ last' = [NoCall EXCEPT !.op = "construct", !.outcome = "ok"]

\* a split whose tag forgets the number of sets
address_split_tag_per_block(address) ==
    IF address >= Pow2(address_bit)
    THEN [err |-> "ValueError", tag |-> -1, index |-> -1, offset |-> -1]
    ELSE IF set_count = 0
    THEN [err |-> "ZeroDivisionError", tag |-> -1, index |-> -1, offset |-> -1]
    ELSE [err |-> "ok",
          tag |-> address \div block_size,
          index |-> (address \div block_size) % set_count,
          offset |-> address % block_size]

address_split(address) ==
    IF address >= Pow2(address_bit)
    THEN [err |-> "ValueError", tag |-> -1, index |-> -1, offset |-> -1]
    ELSE IF set_count = 0
    THEN [err |-> "ZeroDivisionError", tag |-> -1, index |-> -1, offset |-> -1]
    ELSE [err |-> "ok",
          tag |-> address \div (block_size * set_count),
          index |-> (address \div block_size) % set_count,
          offset |-> address % block_size]

\* block and block.valid, for the position find_block returned
IsHit(cache_set, p) == p # 0 /\ cache_set[p].valid

\* a hit that clears the time stamp instead of refreshing it
touch_cleared(block) == IF policy = "LRU" THEN [block EXCEPT !.last_time = 0] ELSE block

\* the hit path's "if self.policy == 'LRU': block.last_time = self.time"
touch(block) == IF policy = "LRU" THEN [block EXCEPT !.last_time = time] ELSE block

\* the words a read miss fetches, and the Memory after fetching them
fill(m, block_address) ==
    LET n == Cardinality({i \in 0..(block_size - 1) : block_address + i < Pow2(address_bit)}) IN
    [data |-> [k \in 1..n |-> MemoryValue(m, block_address + k - 1)],
     memory |-> [m EXCEPT !.access_count = @ + n]]

\* a block whose valid bit is never set
new_block_invalid(tag, data, block_address) ==
    [tag |-> tag, valid |-> FALSE, dirty |-> FALSE, block_size |-> block_size,
     data |-> data, base_address |-> block_address,
     load_time |-> time, last_time |-> time]

\* a block that is born dirty
new_block_dirty(tag, data, block_address) ==
    [tag |-> tag, valid |-> TRUE, dirty |-> TRUE, block_size |-> block_size,
     data |-> data, base_address |-> block_address,
     load_time |-> time, last_time |-> time]

\* a block whose base address is computed from the tag alone
new_block_base_from_tag(tag, data, block_address) ==
    [tag |-> tag, valid |-> TRUE, dirty |-> FALSE, block_size |-> block_size,
     data |-> data, base_address |-> tag * block_size,
     load_time |-> time, last_time |-> time]

\* the CacheBlock a read miss builds
new_block(tag, data, block_address) ==
    [tag |-> tag, valid |-> TRUE, dirty |-> FALSE, block_size |-> block_size,
     data |-> data, base_address |-> block_address,
     load_time |-> time, last_time |-> time]

\* the statistics and time updates of read and write
count_read == access_count' = access_count + 1 /\ read_count' = read_count + 1

\* a read hit that forgets the per-kind counter
count_read_hit_total_only == hit_count' = hit_count + 1 /\ read_hit_count' = read_hit_count

count_read_hit == hit_count' = hit_count + 1 /\ read_hit_count' = read_hit_count + 1

count_write == access_count' = access_count + 1 /\ write_count' = write_count + 1

count_write_hit == hit_count' = hit_count + 1 /\ write_hit_count' = write_hit_count + 1

\* a time stamp that is cleared instead of advanced
advance_time_cleared == time' = 0

advance_time == time' = time + 1

\* read/write raising in address_split, after the counters were bumped
ReadError(address) ==
    /\ pc = "ready" /\ access_count < MaxOps
    /\ address_split(address).err # "ok"
    /\ count_read
    /\ last' = [NoCall EXCEPT !.op = "read", !.address = address,
                              !.outcome = address_split(address).err]
    /\ UNCHANGED <<pc, config, hit_count, write_count, read_hit_count,
                   write_hit_count, time, sets, memory>>

ReadHit(address) ==
    /\ pc = "ready" /\ access_count < MaxOps
    /\ address_split(address).err = "ok"
    /\ LET s == address_split(address)
           cache_set == sets[s.index]
           p == find_block(cache_set, s.tag)
       IN /\ IsHit(cache_set, p)
          /\ count_read
          /\ count_read_hit
          /\ sets' = [sets EXCEPT ![s.index][p] = touch(@)]
          /\ advance_time
          /\ last' = [NoCall EXCEPT !.op = "read", !.address = address, !.outcome = "hit",
                          !.tag = s.tag, !.index = s.index, !.offset = s.offset,
                          !.ret = IF Len(cache_set[p].data) > 0
                                  THEN cache_set[p].data[s.offset + 1] ELSE NoneVal]
    /\ UNCHANGED <<pc, config, write_count, write_hit_count, memory>>

ReadMiss(address, r) ==
    /\ pc = "ready" /\ access_count < MaxOps
    /\ address_split(address).err = "ok"
    /\ LET s == address_split(address)
           cache_set == sets[s.index]
           p == find_block(cache_set, s.tag)
           block_address == (address \div block_size) * block_size
           f == fill(memory, block_address)
           a == add_block(cache_set, new_block(s.tag, f.data, block_address),
                          f.memory, associativity, policy, r)
       IN /\ ~IsHit(cache_set, p)
          /\ r \in 1..Len(cache_set) \/ (r = 1 /\ cache_set = <<>>)
          /\ count_read
          /\ sets' = [sets EXCEPT ![s.index] = a.blocks]
          /\ memory' = a.memory
          /\ advance_time
          /\ last' = [NoCall EXCEPT !.op = "read", !.address = address, !.outcome = "miss",
                          !.tag = s.tag, !.index = s.index, !.offset = s.offset,
                          !.victim = a.victim,
                          !.ret = IF Len(f.data) > 0 THEN f.data[s.offset + 1] ELSE NoneVal]
    /\ UNCHANGED <<pc, config, hit_count, write_count, read_hit_count, write_hit_count>>

WriteError(address, data) ==
    /\ pc = "ready" /\ access_count < MaxOps
    /\ address_split(address).err # "ok"
    /\ count_write
    /\ last' = [NoCall EXCEPT !.op = "write", !.address = address, !.data = data,
                              !.outcome = address_split(address).err]
    /\ UNCHANGED <<pc, config, hit_count, read_count, read_hit_count,
                   write_hit_count, time, sets, memory>>

\* a store that ignores the offset
store_first(block_data, offset, data) ==
    LET d == IF Len(block_data) = 0 THEN [k \in 1..block_size |-> NoneVal] ELSE block_data
    IN [d EXCEPT ![1] = data]

\* block.data after the hit path's store of data at offset
store(block_data, offset, data) ==
    LET d == IF Len(block_data) = 0 THEN [k \in 1..block_size |-> NoneVal] ELSE block_data
    IN [d EXCEPT ![offset + 1] = data]

WriteHit(address, data) ==
    /\ pc = "ready" /\ access_count < MaxOps
    /\ address_split(address).err = "ok"
    /\ LET s == address_split(address)
           cache_set == sets[s.index]
           p == find_block(cache_set, s.tag)
       IN /\ IsHit(cache_set, p)
          /\ count_write
          /\ count_write_hit
          /\ sets' = [sets EXCEPT ![s.index][p] =
                         touch([@ EXCEPT !.data = store(@, s.offset, data), !.dirty = TRUE])]
          /\ advance_time
          /\ last' = [NoCall EXCEPT !.op = "write", !.address = address, !.data = data,
                          !.outcome = "hit",
                          !.tag = s.tag, !.index = s.index, !.offset = s.offset]
    /\ UNCHANGED <<pc, config, read_count, read_hit_count, memory>>

\* a write miss that allocates the block (write-allocate)
WriteMiss_allocate(address, data) ==
    /\ pc = "ready" /\ access_count < MaxOps
    /\ address_split(address).err = "ok"
    /\ LET s == address_split(address)
           cache_set == sets[s.index]
           p == find_block(cache_set, s.tag)
           block_address == (address \div block_size) * block_size
           m == MemoryWrite(memory, address, data)
           f == fill(m, block_address)
           a == add_block(cache_set, new_block(s.tag, f.data, block_address),
                          f.memory, associativity, policy, 1)
       IN /\ ~IsHit(cache_set, p)
          /\ count_write
          /\ advance_time
          /\ sets' = [sets EXCEPT ![s.index] = a.blocks]
          /\ memory' = a.memory
          /\ last' = [NoCall EXCEPT !.op = "write", !.address = address, !.data = data,
                          !.outcome = "miss", !.victim = a.victim,
                          !.tag = s.tag, !.index = s.index, !.offset = s.offset]
    /\ UNCHANGED <<pc, config, hit_count, read_count, read_hit_count, write_hit_count>>

WriteMiss(address, data) ==
    /\ pc = "ready" /\ access_count < MaxOps
    /\ address_split(address).err = "ok"
    /\ LET s == address_split(address)
           cache_set == sets[s.index]
           p == find_block(cache_set, s.tag)
       IN /\ ~IsHit(cache_set, p)
          /\ count_write
          /\ advance_time
          /\ IF MemoryInRange(memory, address)
             THEN /\ memory' = MemoryWrite(memory, address, data)
                  /\ last' = [NoCall EXCEPT !.op = "write", !.address = address, !.data = data,
                                  !.outcome = "miss",
                                  !.tag = s.tag, !.index = s.index, !.offset = s.offset]
             ELSE /\ memory' = memory
                  /\ last' = [NoCall EXCEPT !.op = "write", !.address = address, !.data = data,
                                  !.outcome = "ValueError",
                                  !.tag = s.tag, !.index = s.index, !.offset = s.offset]
    /\ UNCHANGED <<pc, config, hit_count, read_count, read_hit_count, write_hit_count, sets>>

\* ---- statistics ----
\* a hit rate is the fraction num/den; the guarded 0 is 0/1
get_hit_rate ==
    IF access_count = 0 THEN [num |-> 0, den |-> 1]
    ELSE [num |-> hit_count, den |-> access_count]

\* a read hit rate computed from the total number of hits
get_read_hit_rate_all_hits ==
    IF read_count = 0 THEN [num |-> 0, den |-> 1]
    ELSE [num |-> hit_count, den |-> read_count]

get_read_hit_rate ==
    IF read_count = 0 THEN [num |-> 0, den |-> 1]
    ELSE [num |-> read_hit_count, den |-> read_count]

get_write_hit_rate ==
    IF write_count = 0 THEN [num |-> 0, den |-> 1]
    ELSE [num |-> write_hit_count, den |-> write_count]

\* addresses the driver passes: the address space and one address past it
Addresses(ab) == 0..Pow2(ab)

Next ==
    \/ \E cs \in 0..MaxCacheSize, bs \in 0..MaxBlockSize, as \in 0..MaxAssoc,
          pol \in PolicyInputs, ab \in AddressBits : Construct(cs, bs, as, pol, ab)
    \/ \E address \in Addresses(address_bit) : ReadError(address)
    \/ \E address \in Addresses(address_bit) : ReadHit(address)
    \/ \E address \in Addresses(address_bit), r \in 1..MaxAssoc : ReadMiss(address, r)
    \/ \E address \in Addresses(address_bit), data \in Values : WriteError(address, data)
    \/ \E address \in Addresses(address_bit), data \in Values : WriteHit(address, data)
    \/ \E address \in Addresses(address_bit), data \in Values : WriteMiss(address, data)

Spec == Init /\ [][Next]_vars

\* ---- Memory used on its own ----
\* a Memory(size) and calls of Memory.read / Memory.write on any address,
\* one below and one past the range included
InitMemory ==
    /\ pc = "memory"
    /\ cache_size = 0 /\ block_size = 0 /\ associativity = 0
    /\ policy = "none" /\ address_bit = 0 /\ set_count = 0
    /\ access_count = 0 /\ hit_count = 0 /\ read_count = 0 /\ write_count = 0
    /\ read_hit_count = 0 /\ write_hit_count = 0
    /\ time = 0
    /\ sets = <<>>
    /\ \E ab \in AddressBits : memory = NewMemory(Pow2(ab))
    /\ last = NoCall

Memory_read(address) ==
    /\ pc = "memory" /\ memory.access_count < MaxOps
    /\ IF ~MemoryInRange(memory, address)
       THEN /\ memory' = memory
            /\ last' = [NoCall EXCEPT !.op = "Memory.read", !.address = address,
                                      !.outcome = "ValueError"]
       ELSE /\ memory' = [memory EXCEPT !.access_count = @ + 1]
            /\ last' = [NoCall EXCEPT !.op = "Memory.read", !.address = address,
                                      !.outcome = "ok", !.ret = MemoryValue(memory, address)]
    /\ UNCHANGED <<pc, config, stats, time, sets>>

Memory_write(address, data) ==
    /\ pc = "memory" /\ memory.access_count < MaxOps
    /\ IF ~MemoryInRange(memory, address)
       THEN /\ memory' = memory
            /\ last' = [NoCall EXCEPT !.op = "Memory.write", !.address = address,
                                      !.data = data, !.outcome = "ValueError"]
       ELSE /\ memory' = MemoryWrite(memory, address, data)
            /\ last' = [NoCall EXCEPT !.op = "Memory.write", !.address = address,
                                      !.data = data, !.outcome = "ok"]
    /\ UNCHANGED <<pc, config, stats, time, sets>>

NextMemory ==
    \/ \E address \in -1..memory.size : Memory_read(address)
    \/ \E address \in -1..memory.size, data \in Values : Memory_write(address, data)

SpecMemory == InitMemory /\ [][NextMemory]_vars

\* ---- properties ----
Range(seq) == {seq[k] : k \in 1..Len(seq)}

\* the block of set i stored under tag, as a set of 0 or 1 blocks
BlockOf(ss, i, tag) == {b \in Range(ss[i]) : b.tag = tag}

\* the last call was a read or write of an address that address_split accepts
ValidCall(l) == l.op \in {"read", "write"} /\ l.address < Pow2(address_bit) /\ set_count > 0

\* a valid block with the address's tag is in the address's set
Resident(ss, address) ==
    \E b \in Range(ss[(address \div block_size) % set_count]) :
        b.tag = address \div (block_size * set_count) /\ b.valid

\* C1: after any sequence of read and write calls, access_count is
\* read_count + write_count and hit_count is read_hit_count + write_hit_count.
C1_CounterConsistency ==
    /\ access_count = read_count + write_count
    /\ hit_count = read_hit_count + write_hit_count

C1_Witness ==
    /\ read_hit_count >= 1 /\ write_hit_count >= 1
    /\ read_count > read_hit_count /\ write_count > write_hit_count

\* C2: every set holds at most associativity blocks, and the tags of the
\* blocks of one set are pairwise distinct.
C2_SetBounded ==
    pc = "ready" =>
        \A i \in DOMAIN sets :
            /\ Len(sets[i]) <= associativity
            /\ \A p, q \in 1..Len(sets[i]) : sets[i][p].tag = sets[i][q].tag => p = q

C2_Witness ==
    /\ pc = "ready" /\ associativity = 2
    /\ last.victim # <<>>
    /\ Len(sets[last.index]) = 2

\* C3: an eviction writes to Memory exactly when the victim is dirty. After
\* the eviction of a dirty block Memory holds data[offset] at
\* base_address + offset for every offset inside Memory's range, and the
\* write-back is the only thing the call wrote; the eviction of a clean block
\* leaves Memory's contents unchanged, the call only reads the words it fills.
C3_WriteBack ==
    [][last'.victim # <<>> =>
        LET v == last'.victim[1]
            inside == {o \in 0..(block_size - 1) : v.base_address + o < memory.size}
            filled == Len((CHOOSE b \in BlockOf(sets', last'.index, last'.tag) : TRUE).data)
        IN IF v.dirty
           THEN /\ \A o \in inside : memory'.data[v.base_address + o] = v.data[o + 1]
                /\ \A a \in DOMAIN memory.data :
                       (\A o \in inside : a # v.base_address + o) =>
                           memory'.data[a] = memory.data[a]
                /\ memory'.access_count = memory.access_count + filled + Cardinality(inside)
           ELSE /\ memory'.data = memory.data
                /\ memory'.access_count = memory.access_count + filled
    ]_vars

\* a dirty block left the cache and the word a write hit stored in it is in Memory
C3_Witness ==
    /\ last.victim # <<>>
    /\ last.victim[1].dirty
    /\ \E o \in 0..(block_size - 1) :
           /\ last.victim[1].data[o + 1] = 1
           /\ memory.data[last.victim[1].base_address + o] = 1

C6_WriteMissNoAllocate ==
    [][(ValidCall(last') /\ last'.op = "write" /\ ~Resident(sets, last'.address)) =>
        /\ memory'.data[last'.address] = last'.data
        /\ sets' = sets
        /\ hit_count' = hit_count
        /\ write_hit_count' = write_hit_count
    ]_vars

C6_Witness ==
    /\ last.op = "write" /\ last.outcome = "miss"
    /\ memory.data[last.address] = last.data
    /\ hit_count >= 1
    /\ \E i \in DOMAIN sets : sets[i] # <<>>

\* C7: a write that hits leaves Memory (contents and access count) unchanged,
\* stores the value at data[offset] of the hit block and sets its dirty flag.
C7_WriteHitDeferred ==
    [][(ValidCall(last') /\ last'.op = "write" /\ Resident(sets, last'.address)) =>
        /\ memory' = memory
        /\ \E c \in BlockOf(sets', (last'.address \div block_size) % set_count,
                            last'.address \div (block_size * set_count)) :
               /\ c.data[(last'.address % block_size) + 1] = last'.data
               /\ c.dirty
    ]_vars

\* the written word is in the block and not in Memory
C7_Witness ==
    /\ last.op = "write" /\ last.outcome = "hit"
    /\ block_size = 2 /\ last.offset = 1
    /\ memory.data[last.address] # last.data
    /\ \E c \in BlockOf(sets, last.index, last.tag) :
           c.data[2] = last.data /\ c.data[1] # last.data /\ c.dirty

\* C8: a read or write of an address >= 2^address_bit fails with the
\* out-of-range error and changes nothing: counters, time, sets and Memory
\* are as before the call.
C8_OutOfRangeNoMutation ==
    [][(last'.op \in {"read", "write"} /\ last'.address >= Pow2(address_bit)) =>
        /\ last'.outcome = "ValueError"
        /\ stats' = stats
        /\ time' = time
        /\ sets' = sets
        /\ memory' = memory
    ]_vars

\* C9: every constructed Cache has sizes that are positive powers of two, a
\* policy among FIFO/LRU/RANDOM, set_count >= 1 and
\* set_count * block_size * associativity = cache_size (any other
\* configuration is rejected).
C9_ValidConfig ==
    pc = "ready" =>
        /\ IsPow2(cache_size) /\ IsPow2(block_size) /\ IsPow2(associativity)
        /\ policy \in Policies
        /\ set_count >= 1
        /\ set_count * block_size * associativity = cache_size

\* C10: time starts at 0, never decreases, and every read or write call that
\* is a hit or a miss advances it by exactly one; a call that raises in
\* address_split leaves it unchanged.
C10_Time ==
    /\ (pc = "start" => time = 0)
    /\ [][/\ time' >= time
          /\ pc = "start" => time' = 0
          /\ (pc = "ready" /\ ValidCall(last')) => time' = time + 1
          /\ (pc = "ready" /\ ~ValidCall(last')) => time' = time
       ]_vars

C10_Witness ==
    /\ time = 3 /\ access_count = 4
    /\ read_hit_count >= 1 /\ write_count > write_hit_count

\* C11: every hit count is at most its access count, so each hit rate lies
\* in [0,1], and a hit rate is 0 when its denominator count is 0.
C11_HitRateBounds ==
    /\ hit_count <= access_count
    /\ read_hit_count <= read_count
    /\ write_hit_count <= write_count
    /\ \A r \in {get_hit_rate, get_read_hit_rate, get_write_hit_rate} :
           r.den >= 1 /\ 0 <= r.num /\ r.num <= r.den
    /\ access_count = 0 => get_hit_rate.num = 0
    /\ read_count = 0 => get_read_hit_rate.num = 0
    /\ write_count = 0 => get_write_hit_rate.num = 0

\* no write yet (its rate is the guarded 0) while hits outnumber reads' misses
C11_Witness ==
    /\ write_count = 0 /\ get_write_hit_rate.num = 0
    /\ read_hit_count >= 2 /\ read_hit_count < read_count

\* C12: in a Cache with set_count >= 1, address_split of every address of the
\* address space gives offset in [0, block_size), index in [0, set_count) and
\* tag * block_size * set_count + index * block_size + offset = address.
C12_AddressSplitRoundTrip ==
    (pc = "ready" /\ set_count >= 1) =>
        \A a \in 0..(Pow2(address_bit) - 1) :
            LET s == address_split(a) IN
            /\ s.err = "ok"
            /\ 0 <= s.offset /\ s.offset < block_size
            /\ 0 <= s.index /\ s.index < set_count
            /\ s.tag * block_size * set_count + s.index * block_size + s.offset = a

\* a call split an address with a non-zero tag and a non-zero index
C12_Witness ==
    /\ pc = "ready" /\ set_count = 2
    /\ last.outcome \in {"hit", "miss"}
    /\ last.tag = 1 /\ last.index = 1
    /\ address_split(last.address).tag = 1

\* C13: a read of the address the preceding completed read read is a hit
\* (hit_count and read_hit_count grow by one) and returns the same value.
C13_ReadAfterRead ==
    [][(/\ pc = "ready" /\ set_count >= 1
        /\ last.op = "read" /\ last.outcome \in {"hit", "miss"}
        /\ last'.op = "read" /\ last'.address = last.address
        /\ access_count' = access_count + 1) =>
        /\ hit_count' = hit_count + 1
        /\ read_hit_count' = read_hit_count + 1
        /\ last'.ret = last.ret
    ]_vars

\* the first read missed and fetched a written word, the second hit and
\* returned it
C13_Witness ==
    /\ last.op = "read" /\ last.outcome = "hit" /\ last.ret = 1
    /\ read_count = 2 /\ read_hit_count = 1 /\ write_hit_count = 0

\* C14: Memory.read and Memory.write on an address outside [0, size) raise
\* and leave the Memory unchanged; inside the range each counts one access,
\* read changes no cell and returns the cell's word, 0 for a cell never
\* written (the word just written when the call follows a write of the
\* address), and write changes the addressed cell only.
C14_MemoryContract ==
    /\ (pc = "memory" /\ memory.access_count = 0) =>
           \A c \in DOMAIN memory.data : memory.data[c] = NoneVal
    /\ [][pc = "memory" =>
           LET a == last'.address IN
           IF a < 0 \/ a >= memory.size
           THEN last'.outcome = "ValueError" /\ memory' = memory
           ELSE /\ last'.outcome = "ok"
                /\ memory'.access_count = memory.access_count + 1
                /\ memory'.size = memory.size
                /\ IF last'.op = "Memory.read"
                   THEN /\ memory'.data = memory.data
                        /\ last'.ret = IF memory.data[a] = NoneVal THEN 0 ELSE memory.data[a]
                        /\ (last.op = "Memory.write" /\ last.outcome = "ok" /\ last.address = a)
                               => last'.ret = last.data
                   ELSE /\ DOMAIN memory'.data = DOMAIN memory.data
                        /\ \A c \in DOMAIN memory.data :
                               memory'.data[c] = IF c = a THEN last'.data ELSE memory.data[c]
       ]_vars

\* a read of a cell never written returned 0 after other cells were written
C14_Witness ==
    /\ pc = "memory"
    /\ last.op = "Memory.read" /\ last.outcome = "ok" /\ last.ret = 0
    /\ memory.data[last.address] = NoneVal
    /\ \E c \in DOMAIN memory.data : memory.data[c] = 1

\* the word the cache with its Memory holds for an address: the resident
\* block's word, else Memory's cell read as 0 when it was never written
View(ss, m, a) ==
    LET bs == {b \in Range(ss[(a \div block_size) % set_count]) :
                   b.tag = a \div (block_size * set_count) /\ b.valid}
    IN IF bs # {} THEN (CHOOSE b \in bs : TRUE).data[(a % block_size) + 1]
       ELSE IF m.data[a] = NoneVal THEN 0 ELSE m.data[a]

Flat(ss, m) == [a \in 0..(Pow2(address_bit) - 1) |-> View(ss, m, a)]

\* C15: the cache with its Memory behaves like a flat memory that starts as
\* all 0: a read returns the flat memory's word and changes nothing in it, a
\* write changes the word of its address to the written value and no other,
\* and a call that raises changes nothing.
C15_Transparency ==
    [][(pc = "ready" /\ set_count >= 1) =>
        LET old == Flat(sets, memory)
            new == Flat(sets', memory')
        IN /\ access_count = 0 => \A a \in DOMAIN old : old[a] = 0
           /\ IF ValidCall(last')
              THEN IF last'.op = "read"
                   THEN last'.ret = old[last'.address] /\ new = old
                   ELSE new = [old EXCEPT ![last'.address] = last'.data]
              ELSE new = old
    ]_vars

\* a read missed and fetched from Memory a word that only write hits stored:
\* it went to Memory through a write-back
C15_Witness ==
    /\ last.op = "read" /\ last.outcome = "miss" /\ last.ret = 1
    /\ write_hit_count >= 1 /\ write_count = write_hit_count

\* C16: a block is clean when it is filled, a write hit on it makes it
\* dirty, no other call changes the dirty flag of a block that stays
\* resident (so the flag says whether the block was write-hit since its
\* fill, and never goes back to clean), and a clean block holds the words
\* Memory holds at base_address + offset, unwritten cells read as 0.
C16_DirtyFlag ==
    /\ [](pc = "ready" =>
            \A i \in DOMAIN sets : \A b \in Range(sets[i]) :
                ~b.dirty => \A o \in 0..(Len(b.data) - 1) :
                    b.data[o + 1] = IF memory.data[b.base_address + o] = NoneVal
                                    THEN 0 ELSE memory.data[b.base_address + o])
    /\ [][pc = "ready" =>
            \A i \in DOMAIN sets : \A c \in Range(sets'[i]) :
                LET written == /\ ValidCall(last') /\ last'.op = "write"
                               /\ Resident(sets, last'.address)
                               /\ (last'.address \div block_size) % set_count = i
                               /\ last'.address \div (block_size * set_count) = c.tag
                IN IF BlockOf(sets, i, c.tag) = {}
                   THEN ~c.dirty
                   ELSE \A b \in BlockOf(sets, i, c.tag) : c.dirty = (b.dirty \/ written)
       ]_vars

\* a dirty block next to a clean block that holds a word written to Memory
C16_Witness ==
    /\ pc = "ready"
    /\ \E i, j \in DOMAIN sets : \E b \in Range(sets[i]) : \E c \in Range(sets[j]) :
           /\ b.dirty /\ ~c.dirty
           /\ \E o \in 0..(Len(c.data) - 1) :
                  c.data[o + 1] = 1 /\ memory.data[c.base_address + o] = 1

\* the call that led to the state with last call l was a read that missed
ReadMissed(ss, l) == ValidCall(l) /\ l.op = "read" /\ ~Resident(ss, l.address)

Tags(blocks) == {b.tag : b \in Range(blocks)}

\* C17: a block becomes resident only by the fill of a read miss of its
\* address and is then valid and clean; it turns dirty only by a write hit
\* on it and never turns clean or invalid while resident; it stops being
\* resident only as the victim of a read miss of another tag of its set. No
\* read hit, write hit, write miss or failing call adds or removes a block.
C17_Lifecycle ==
    [][pc = "ready" =>
        \A i \in DOMAIN sets :
            /\ \A c \in Range(sets'[i]) :
                   BlockOf(sets, i, c.tag) = {} =>
                       /\ ReadMissed(sets, last')
                       /\ (last'.address \div block_size) % set_count = i
                       /\ last'.address \div (block_size * set_count) = c.tag
                       /\ c.valid /\ ~c.dirty
            /\ \A b \in Range(sets[i]) :
                   BlockOf(sets', i, b.tag) = {} =>
                       /\ ReadMissed(sets, last')
                       /\ (last'.address \div block_size) % set_count = i
                       /\ last'.address \div (block_size * set_count) # b.tag
                       /\ last'.victim = <<b>>
            /\ \A b \in Range(sets[i]) : \A c \in BlockOf(sets', i, b.tag) :
                   /\ c.valid
                   /\ b.dirty => c.dirty
                   /\ (~b.dirty /\ c.dirty) =>
                          /\ ValidCall(last') /\ last'.op = "write"
                          /\ (last'.address \div block_size) % set_count = i
                          /\ last'.address \div (block_size * set_count) = b.tag
            /\ ~ReadMissed(sets, last') => Tags(sets'[i]) = Tags(sets[i])
    ]_vars

\* a block went through the whole lifecycle: filled, written, and evicted by
\* the fill of another tag while an older block stayed
C17_Witness ==
    /\ policy = "RANDOM"
    /\ last.victim # <<>>
    /\ last.victim[1].dirty
    /\ last.victim[1].tag # last.tag
    /\ \E b \in Range(sets[last.index]) : b.load_time < last.victim[1].load_time

\* C18: a read miss evicts exactly one block of the target set when the set
\* holds associativity blocks and none when it holds fewer, then inserts the
\* new block; the other sets are untouched, and the evicted block's address
\* is no longer resident (a following read of it misses).
C18_EvictOnlyWhenFull ==
    [][(pc = "ready" /\ ReadMissed(sets, last')) =>
        LET idx == (last'.address \div block_size) % set_count
            tg == last'.address \div (block_size * set_count)
        IN /\ IF Len(sets[idx]) >= associativity
              THEN /\ Len(last'.victim) = 1
                   /\ last'.victim[1] \in Range(sets[idx])
                   /\ Tags(sets'[idx]) = (Tags(sets[idx]) \ {last'.victim[1].tag}) \cup {tg}
                   /\ Len(sets'[idx]) = Len(sets[idx])
                   /\ ~Resident(sets', last'.victim[1].base_address)
              ELSE /\ last'.victim = <<>>
                   /\ Tags(sets'[idx]) = Tags(sets[idx]) \cup {tg}
                   /\ Len(sets'[idx]) = Len(sets[idx]) + 1
           /\ \A j \in DOMAIN sets : j # idx => sets'[j] = sets[j]
    ]_vars

\* direct-mapped, one set, two tags: three reads, no hit, the last one of
\* address 0 -- tag 0 was read, evicted by tag 1, and read again as a miss
C18_Witness ==
    /\ associativity = 1 /\ set_count = 1 /\ block_size = 2
    /\ access_count = 3 /\ read_count = 3 /\ hit_count = 0 /\ time = 3
    /\ last.address = 0 /\ last.outcome = "miss"
    /\ last.victim # <<>> /\ last.victim[1].tag = 1

\* the resident blocks of the cache, each with its set and its position
Slots == {s \in (DOMAIN sets) \X (1..associativity) : s[2] <= Len(sets[s[1]])}

\* C19: no two resident blocks of the cache have the same load_time, no two
\* the same last_time, and every resident block has
\* load_time <= last_time < time; so a set has exactly one block of minimal
\* load_time and exactly one of minimal last_time.
C19_UniqueTimes ==
    pc = "ready" =>
        /\ \A s, t \in Slots :
               s # t => /\ sets[s[1]][s[2]].load_time # sets[t[1]][t[2]].load_time
                        /\ sets[s[1]][s[2]].last_time # sets[t[1]][t[2]].last_time
        /\ \A s \in Slots :
               /\ sets[s[1]][s[2]].load_time <= sets[s[1]][s[2]].last_time
               /\ sets[s[1]][s[2]].last_time < time
        /\ \A i \in DOMAIN sets : sets[i] # <<>> =>
               /\ Cardinality({b \in Range(sets[i]) :
                      \A c \in Range(sets[i]) : b.load_time <= c.load_time}) = 1
               /\ Cardinality({b \in Range(sets[i]) :
                      \A c \in Range(sets[i]) : b.last_time <= c.last_time}) = 1

\* two resident blocks under LRU, the older one refreshed by a hit after the
\* younger one was filled
C19_Witness ==
    /\ pc = "ready" /\ policy = "LRU"
    /\ \E s, t \in Slots :
           /\ sets[s[1]][s[2]].load_time < sets[t[1]][t[2]].load_time
           /\ sets[s[1]][s[2]].last_time > sets[t[1]][t[2]].last_time

\* C20: every block of set i is valid, its base_address is a multiple of
\* block_size and equals (tag * set_count + i) * block_size, and every
\* address base_address + offset of the block splits into the block's tag
\* and the index i. (The key a block is stored under is its tag: dict_set.)
C20_BlockAddress ==
    pc = "ready" =>
        \A i \in DOMAIN sets : \A b \in Range(sets[i]) :
            /\ b.valid
            /\ b.base_address % block_size = 0
            /\ b.base_address = (b.tag * set_count + i) * block_size
            /\ \A o \in 0..(block_size - 1) :
                   b.base_address + o < Pow2(address_bit) =>
                       /\ address_split(b.base_address + o).tag = b.tag
                       /\ address_split(b.base_address + o).index = i
                       /\ address_split(b.base_address + o).offset = o

\* a dirty block with a non-zero tag in a set with a non-zero index
C20_Witness ==
    /\ pc = "ready" /\ set_count = 2
    /\ \E b \in Range(sets[1]) : b.tag = 1 /\ b.base_address = 3 /\ b.dirty
====
